---------------------------- MODULE Spec2Model ----------------------------
(***************************************************************************)
(* A model of weatherapp.py: the WeatherApp widget (a location line edit,  *)
(* three exclusive radio buttons, a Get Weather button and a result        *)
(* label), its click handler get_weather_info, the fetch get_weather and   *)
(* the formatter display_weather_info.                                     *)
(*                                                                         *)
(* Numbers.  Temperatures are held exactly, as integers counting           *)
(* thousandths: 273.15 is 273150.  The inputs are multiples of 0.01, so    *)
(* v - 273.15 is a multiple of 0.01 and (v - 273.15) * 9/5 + 32 an even    *)
(* multiple of 0.001: every converted value is at least 0.001 away from a  *)
(* rounding tie of the two-decimal format, while the code's double         *)
(* arithmetic is off by less than 1e-9, so "{:.2f}" prints the same digits *)
(* for the exact value and for the double.                                 *)
(*                                                                         *)
(* Text.  A text is the sequence of its lines (the text split at "\n").    *)
(***************************************************************************)
EXTENDS Integers, Sequences, FiniteSets, TLC

VARIABLES
    environ,        \* OPENWEATHER_API_KEY in os.environ: [set, value]
    location_text,  \* self.location_entry.text(), a sequence of characters
    c_button,       \* self.c_button.isChecked()
    f_button,       \* self.f_button.isChecked()
    k_button,       \* self.k_button.isChecked()
    info_label,     \* self.info_label.text(), a sequence of lines
    clicks,         \* runs of get_weather_info so far
    net_calls,      \* calls of requests.get so far
    outcome,        \* how the last run of a handler or function ended
    reply,          \* what the network gave the last requests.get
    unit,           \* the local `unit` of the last run that computed it
    sent            \* the query parameters the endpoint received last

vars == <<environ, location_text, c_button, f_button, k_button, info_label,
          clicks, net_calls, outcome, reply, unit, sent>>

---------------------------------------------------------------------------
(* Bounds *)

MaxClicks == 2      \* runs of the click handler in one behaviour
MaxLocLen == 1      \* characters typed into the line edit (UI behaviours)
MaxQueryLen == 3    \* characters of a location handed to get_weather

\* The characters a location is built from: a letter, the URL delimiters
\* and a space.
LocChars == {"a", "&", "=", "#", " "}

\* Kelvin inputs, in thousandths: 273.15, 280.0, 255.37 (just below 0 F)
\* and 0.0.
TempSet == {273150, 280000, 255370, 0}

---------------------------------------------------------------------------
(* Two-decimal formatting, f"{x:.2f}" *)

Abs(x) == IF x < 0 THEN -x ELSE x

TwoDigits(n) == IF n < 10 THEN "0" \o ToString(n) ELSE ToString(n)

\* x counts thousandths.  Round to the nearest hundredth (ties to even, as
\* for an exactly representable tie); the sign is printed for every
\* negative x, also when it rounds to zero ("-0.00").
Fmt2(x) ==
    LET a == Abs(x)
        q == a \div 10
        r == a % 10
        cents == IF r > 5 \/ (r = 5 /\ q % 2 = 1) THEN q + 1 ELSE q
    IN  (IF x < 0 THEN "-" ELSE "") \o ToString(cents \div 100) \o "."
            \o TwoDigits(cents % 100)

\* str() of a float with one decimal, counted in tenths: 35 is "3.5",
\* 30 is "3.0".
FmtFloat(n) == ToString(n \div 10) \o "." \o ToString(n % 10)

---------------------------------------------------------------------------
(* Parsed JSON values, response.json() *)

\* A JSON value carries its type; an object's fields are a function from
\* its keys, an array here holds strings, a string is its characters.
JNull == [type |-> "null"]
JBool(b) == [type |-> "bool", b |-> b]
JNum(n) == [type |-> "number", n |-> n]
JStr(s) == [type |-> "string", chars |-> s]
JArr(a) == [type |-> "array", items |-> a]
JObj(f) == [type |-> "object", fields |-> f]

\* A dict without one of its keys.
Drop(f, k) == [x \in DOMAIN f \ {k} |-> f[x]]

\* The body the API gives for a known location; temperatures in
\* thousandths of a kelvin, wind speed in tenths of a metre per second.
Reading(name, t, fl, tmin, tmax) ==
    [name |-> name,
     weather |-> <<[description |-> "clear sky"], [description |-> "mist"]>>,
     main |-> [temp |-> t, feels_like |-> fl, temp_min |-> tmin,
               temp_max |-> tmax, humidity |-> 60],
     wind |-> [speed |-> 35]]

London == Reading("London", 280000, 279000, 278000, 282000)
Oslo == Reading("Oslo", 273150, 273150, 273150, 273150)

\* Bodies with every expected field.
CompleteBodies == {JObj(London), JObj(Oslo)}

\* London's body with one field missing, at each place of the shape.
DefectiveBodies ==
    {JObj(Drop(London, k)) : k \in {"name", "weather", "main", "wind"}}
    \cup {JObj([London EXCEPT !.weather = <<>>]),
          JObj([London EXCEPT !.weather = <<[id |-> 800]>>]),
          JObj([London EXCEPT !.wind = [deg |-> 90]])}
    \cup {JObj([London EXCEPT !.main = Drop(London.main, k)]) :
            k \in {"temp", "feels_like", "temp_min", "temp_max", "humidity"}}

\* The API's body for an unknown location, and the empty object.
NotFoundBody == JObj([cod |-> "404", message |-> "city not found"])
EmptyBody == JObj([x \in {} |-> 0])

\* Bodies that are valid JSON and no object.
ScalarBodies ==
    {JNull, JBool(FALSE), JBool(TRUE), JNum(0), JNum(5),
     JStr(<<>>), JStr(<<"x">>), JStr(<<"n", "a", "m", "e">>),
     JArr(<<>>), JArr(<<"x">>), JArr(<<"name">>)}

JsonBodies ==
    CompleteBodies \cup DefectiveBodies \cup {NotFoundBody, EmptyBody}
        \cup ScalarBodies

\* What one requests.get followed by response.json() can give: the get
\* raises, the body is no JSON, or the parsed body.
NetworkError == [kind |-> "network_error"]
NotJson == [kind |-> "not_json"]
Json(v) == [kind |-> "json", value |-> v]
NoReply == [kind |-> "none"]
Replies == {NetworkError, NotJson} \cup {Json(v) : v \in JsonBodies}

\* bool(v)
Truthy(v) ==
    CASE v.type = "null" -> FALSE
      [] v.type = "bool" -> v.b
      [] v.type = "number" -> v.n # 0
      [] v.type = "string" -> v.chars # <<>>
      [] v.type = "array" -> v.items # <<>>
      [] v.type = "object" -> DOMAIN v.fields # {}

\* Whether `"name" in v` evaluates at all: not for a number or a bool.
SupportsIn(v) == v.type \in {"string", "array", "object"}

NameChars == <<"n", "a", "m", "e">>

\* "name" in v: a key of a dict, an item of a list, a substring of a str.
NameIn(v) ==
    CASE v.type = "object" -> "name" \in DOMAIN v.fields
      [] v.type = "array" -> \E i \in 1..Len(v.items) : v.items[i] = "name"
      [] v.type = "string" ->
            \E i \in 1..Len(v.chars) :
                /\ i + Len(NameChars) - 1 <= Len(v.chars)
                /\ SubSeq(v.chars, i, i + Len(NameChars) - 1) = NameChars

\* The condition `weather_data and "name" in weather_data`: which branch
\* runs, or "raise" when the membership test raises TypeError.
NameTest(v) ==
    IF ~Truthy(v) THEN "else"
    ELSE IF ~SupportsIn(v) THEN "raise"
    ELSE IF NameIn(v) THEN "then"
    ELSE "else"

---------------------------------------------------------------------------
(* display_weather_info *)

KelvinOffset == 273150      \* 273.15
FahrenheitShift == 32000    \* 32

Units == {"C", "F", "K"}

\* Convert with the Fahrenheit branch losing its "+ 32".
ConvertNoShift(v, u) ==
    IF u = "C" THEN v - KelvinOffset
    ELSE IF u = "F" THEN ((v - KelvinOffset) * 9) \div 5
    ELSE v

\* The arithmetic of the three branches on one Kelvin value.
Convert(v, u) ==
    IF u = "C" THEN v - KelvinOffset
    ELSE IF u = "F" THEN (((v - KelvinOffset) * 9) \div 5) + FahrenheitShift
    ELSE v

\* UnitLabel with the Fahrenheit branch keeping the Celsius label.
UnitLabelCopied(u) ==
    IF u = "C" THEN "°C"
    ELSE IF u = "F" THEN "°C"
    ELSE "K"

UnitLabel(u) ==
    IF u = "C" THEN "°C"
    ELSE IF u = "F" THEN "°F"
    ELSE "K"

\* Whether the eight lookups of the function's first lines all succeed; if
\* one does not, the function raises (TypeError on a list or a str,
\* KeyError on a missing key, IndexError on an empty weather list).
LookupsSucceed(data) ==
    /\ data.type = "object"
    /\ "name" \in DOMAIN data.fields
    /\ "weather" \in DOMAIN data.fields
    /\ Len(data.fields.weather) >= 1
    /\ "description" \in DOMAIN data.fields.weather[1]
    /\ "main" \in DOMAIN data.fields
    /\ {"temp", "feels_like", "temp_min", "temp_max", "humidity"}
            \subseteq DOMAIN data.fields.main
    /\ "wind" \in DOMAIN data.fields
    /\ "speed" \in DOMAIN data.fields.wind

\* The f-string, line by line.
InfoText(d, u) ==
    << "Weather Information:",
       "Location: " \o d.name,
       "Weather: " \o d.weather[1].description,
       "Temperature: " \o Fmt2(Convert(d.main.temp, u)) \o " "
            \o UnitLabel(u),
       "Feels Like: " \o Fmt2(Convert(d.main.feels_like, u)) \o " "
            \o UnitLabel(u),
       "Min Temperature: " \o Fmt2(Convert(d.main.temp_min, u)) \o " "
            \o UnitLabel(u),
       "Max Temperature: " \o Fmt2(Convert(d.main.temp_max, u)) \o " "
            \o UnitLabel(u),
       "Humidity: " \o ToString(d.main.humidity) \o "%",
       "Wind Speed: " \o FmtFloat(d.wind.speed) \o " m/s" >>

\* display_weather_info reading the fields with defaults instead of
\* raising: a body with a name and a field missing gives the lines it has.
display_weather_info_lenient(data, u) ==
    IF LookupsSucceed(data)
    THEN [raised |-> FALSE, text |-> InfoText(data.fields, u)]
    ELSE IF data.type = "object" /\ "name" \in DOMAIN data.fields
    THEN [raised |-> FALSE,
          text |-> <<"Weather Information:",
                     "Location: " \o data.fields.name>>]
    ELSE [raised |-> TRUE, text |-> <<>>]

\* The call: it raises, or returns the text.
display_weather_info(data, u) ==
    IF LookupsSucceed(data)
    THEN [raised |-> FALSE, text |-> InfoText(data.fields, u)]
    ELSE [raised |-> TRUE, text |-> <<>>]

---------------------------------------------------------------------------
(* get_weather_info *)

EmptyText == <<"">>

FailureText ==
    <<"Failed to fetch weather data. Please check the location and try again.">>

\* KeyMissing testing `api_key is None` only.
KeyMissingOnlyUnset(env) == ~env.set

\* `not api_key` for api_key = os.getenv(...): None when the variable is
\* unset, the empty string when it is set to nothing.
KeyMissing(env) == ~env.set \/ env.value = <<>>

\* SelectedUnit starting from 'C' and probing the other two buttons.
SelectedUnitDefaultC(c, f, k) ==
    IF f THEN "F"
    ELSE IF k THEN "K"
    ELSE "C"

\* The if/elif over the radio buttons, starting from 'K'.
SelectedUnit(c, f, k) ==
    IF c THEN "C"
    ELSE IF f THEN "F"
    ELSE "K"

\* GetsAfter with one retry after a network error.
GetsAfterRetry(calls, r) ==
    IF r.kind = "network_error" THEN calls + 2 ELSE calls + 1

\* requests.get is called once in get_weather, whatever comes of it.
GetsAfter(calls, r) == calls + 1

\* How get_weather and the lines after it end for reply r and unit u:
\* the label's new text when setText is reached, and otherwise the
\* exception leaves the label alone.
HandlerResult(r, u, label) ==
    IF r.kind # "json"
    THEN [outcome |-> "raised", label |-> label]
    ELSE IF NameTest(r.value) = "raise"
    THEN [outcome |-> "raised", label |-> label]
    ELSE IF NameTest(r.value) = "else"
    THEN [outcome |-> "failed", label |-> FailureText]
    ELSE IF display_weather_info(r.value, u).raised
    THEN [outcome |-> "raised", label |-> label]
    ELSE [outcome |-> "shown", label |-> display_weather_info(r.value, u).text]

---------------------------------------------------------------------------
(* get_weather: the request *)

ApiKey == <<"k", "1">>

Endpoint == "https://api.openweathermap.org/data/2.5/weather"

\* The f-string: location and key are put into the URL as they are.
BuildUrl(api_key, location) ==
    <<Endpoint, "?", "q", "=">> \o location
        \o <<"&", "a", "p", "p", "i", "d", "=">> \o api_key

\* requests quotes the characters a URL may not hold before sending: a
\* space becomes %20; the delimiters & = # ? are left as they are.
RECURSIVE RequoteUri(_)
RequoteUri(url) ==
    IF url = <<>> THEN <<>>
    ELSE (IF Head(url) = " " THEN <<"%", "2", "0">> ELSE <<Head(url)>>)
            \o RequoteUri(Tail(url))

\* The index of the first ch in s, or Len(s) + 1.
FirstIndex(s, ch) ==
    IF \E i \in 1..Len(s) : s[i] = ch
    THEN CHOOSE i \in 1..Len(s) :
            s[i] = ch /\ \A j \in 1..(i - 1) : s[j] # ch
    ELSE Len(s) + 1

Before(s, ch) == SubSeq(s, 1, FirstIndex(s, ch) - 1)
After(s, ch) == SubSeq(s, FirstIndex(s, ch) + 1, Len(s))

\* Percent-decoding at the endpoint.
RECURSIVE Unquote(_)
Unquote(s) ==
    IF s = <<>> THEN <<>>
    ELSE IF Len(s) >= 3 /\ SubSeq(s, 1, 3) = <<"%", "2", "0">>
    THEN <<" ">> \o Unquote(SubSeq(s, 4, Len(s)))
    ELSE <<Head(s)>> \o Unquote(Tail(s))

\* The query's name=value pairs, split at each &.
RECURSIVE QueryPairs(_)
QueryPairs(q) ==
    IF q = <<>> THEN <<>>
    ELSE LET piece == Before(q, "&")
             rest == After(q, "&")
         IN  (IF piece = <<>> THEN <<>>
              ELSE <<[name |-> Unquote(Before(piece, "=")),
                      value |-> Unquote(After(piece, "="))]>>)
                \o QueryPairs(rest)

\* What the endpoint receives of a URL: the fragment (from the first #)
\* is not sent; the query is what follows the first ?.
Received(url) == QueryPairs(After(Before(url, "#"), "?"))

\* The value of the first parameter called name, if there is one.
Param(pairs, name) ==
    IF \E i \in 1..Len(pairs) : pairs[i].name = name
    THEN [present |-> TRUE,
          value |-> pairs[CHOOSE i \in 1..Len(pairs) :
                            /\ pairs[i].name = name
                            /\ \A j \in 1..(i - 1) : pairs[j].name # name].value]
    ELSE [present |-> FALSE, value |-> <<>>]

---------------------------------------------------------------------------
(* The widget *)

Environs ==
    {[set |-> FALSE, value |-> <<>>],
     [set |-> TRUE, value |-> <<>>],
     [set |-> TRUE, value |-> ApiKey]}

\* The state init_ui leaves: an empty line edit, no radio button checked,
\* an empty label.
InitWidget ==
    /\ c_button = FALSE
    /\ f_button = FALSE
    /\ k_button = FALSE
    /\ info_label = EmptyText
    /\ clicks = 0
    /\ net_calls = 0
    /\ outcome = "none"
    /\ sent = <<>>

Init ==
    /\ environ \in Environs
    /\ InitWidget
    /\ location_text = <<>>
    /\ reply = NoReply
    /\ unit = "none"

\* The user types a character into the line edit.
TypeChar ==
    /\ Len(location_text) < MaxLocLen
    /\ \E ch \in LocChars : location_text' = Append(location_text, ch)
    /\ UNCHANGED <<environ, c_button, f_button, k_button, info_label,
                   clicks, net_calls, outcome, reply, unit, sent>>

\* The user deletes the last character.
Backspace ==
    /\ location_text # <<>>
    /\ location_text' = SubSeq(location_text, 1, Len(location_text) - 1)
    /\ UNCHANGED <<environ, c_button, f_button, k_button, info_label,
                   clicks, net_calls, outcome, reply, unit, sent>>

\* The user clicks a radio button of the exclusive button group: it
\* becomes the one checked button.
CheckRadio ==
    /\ \E b \in Units :
        /\ c_button' = (b = "C")
        /\ f_button' = (b = "F")
        /\ k_button' = (b = "K")
    /\ <<c_button', f_button', k_button'>> # <<c_button, f_button, k_button>>
    /\ UNCHANGED <<environ, location_text, info_label, clicks, net_calls,
                   outcome, reply, unit, sent>>

\* The user clicks Get Weather: one run of get_weather_info.  Without a
\* key it raises RuntimeError before anything else; the event loop prints
\* the traceback and goes on.  With a key it fixes the unit, calls
\* get_weather, whose outcome the network decides, and goes on from there.
\* An exception from get_weather or display_weather_info is treated by the
\* event loop in the same way.  What the request carries has no effect on
\* the widget; CallGetWeather below follows it for every location.
get_weather_info ==
    /\ clicks < MaxClicks
    /\ clicks' = clicks + 1
    /\ IF KeyMissing(environ)
       THEN /\ outcome' = "config_error"
            /\ UNCHANGED <<info_label, net_calls, reply, unit>>
       ELSE \E r \in Replies :
                LET u == SelectedUnit(c_button, f_button, k_button)
                    res == HandlerResult(r, u, info_label)
                IN  /\ net_calls' = GetsAfter(net_calls, r)
                    /\ reply' = r
                    /\ unit' = u
                    /\ outcome' = res.outcome
                    /\ info_label' = res.label
    /\ UNCHANGED <<environ, location_text, c_button, f_button, k_button, sent>>

Next == TypeChar \/ Backspace \/ CheckRadio \/ get_weather_info

Spec == Init /\ [][Next]_vars

---------------------------------------------------------------------------
(* get_weather over every location *)

\* The strings of at most n location characters.
Strings(n) == UNION {[1..m -> LocChars] : m \in 0..n}

\* get_weather is entered with the key and any location.
InitRequest ==
    /\ environ = [set |-> TRUE, value |-> ApiKey]
    /\ InitWidget
    /\ location_text \in Strings(MaxQueryLen)
    /\ reply = NoReply
    /\ unit = "none"

\* The call up to requests.get: the URL is built and sent.
CallGetWeather ==
    /\ outcome = "none"
    /\ sent' = Received(RequoteUri(BuildUrl(environ.value, location_text)))
    /\ net_calls' = GetsAfter(net_calls, NoReply)
    /\ outcome' = "requested"
    /\ UNCHANGED <<environ, location_text, c_button, f_button, k_button,
                   info_label, clicks, reply, unit>>

NextRequest == CallGetWeather

SpecRequest == InitRequest /\ [][NextRequest]_vars

---------------------------------------------------------------------------
(* display_weather_info over every reading and unit *)

FormatInputs ==
    {JObj(Reading("London", t, fl, tmin, tmax)) :
        t \in TempSet, fl \in TempSet, tmin \in TempSet, tmax \in TempSet}

\* display_weather_info is entered with a complete body and a unit.
InitFormat ==
    /\ environ = [set |-> TRUE, value |-> ApiKey]
    /\ InitWidget
    /\ location_text = <<>>
    /\ reply \in {Json(v) : v \in FormatInputs}
    /\ unit \in Units

\* The call, and setText with what it returns.
CallDisplay ==
    /\ outcome = "none"
    /\ ~display_weather_info(reply.value, unit).raised
    /\ info_label' = display_weather_info(reply.value, unit).text
    /\ outcome' = "formatted"
    /\ UNCHANGED <<environ, location_text, c_button, f_button, k_button,
                   clicks, net_calls, reply, unit, sent>>

NextFormat == CallDisplay

SpecFormat == InitFormat /\ [][NextFormat]_vars

---------------------------------------------------------------------------
(* What the specification states, in its own terms *)

KeyUnsetOrEmpty == environ.set = FALSE \/ Len(environ.value) = 0

NoButtonChecked == ~c_button /\ ~f_button /\ ~k_button

\* The conversion rules of the specification, on thousandths.
Celsius(v) == v - 273150
Fahrenheit(v) == ((Celsius(v) * 9) \div 5) + 32000
Converted(v, u) ==
    CASE u = "C" -> Celsius(v)
      [] u = "F" -> Fahrenheit(v)
      [] u = "K" -> v

Suffix(u) ==
    CASE u = "C" -> " °C"
      [] u = "F" -> " °F"
      [] u = "K" -> " K"

\* The four temperature lines of the template for body fields d.
TemperatureLines(d, u) ==
    << "Temperature: " \o Fmt2(Converted(d.main.temp, u)) \o Suffix(u),
       "Feels Like: " \o Fmt2(Converted(d.main.feels_like, u)) \o Suffix(u),
       "Min Temperature: " \o Fmt2(Converted(d.main.temp_min, u)) \o Suffix(u),
       "Max Temperature: " \o Fmt2(Converted(d.main.temp_max, u)) \o Suffix(u) >>

\* The rendered text template for body fields d.
Template(d, u) ==
    << "Weather Information:",
       "Location: " \o d.name,
       "Weather: " \o d.weather[1].description >>
    \o TemperatureLines(d, u)
    \o << "Humidity: " \o ToString(d.main.humidity) \o "%",
          "Wind Speed: " \o FmtFloat(d.wind.speed) \o " m/s" >>

HasNameField(v) == v.type = "object" /\ "name" \in DOMAIN v.fields

\* A run of the handler with the key set has completed.
FetchAttempted == clicks > 0 /\ ~KeyUnsetOrEmpty

---------------------------------------------------------------------------
(* The claims *)

\* C1: while OPENWEATHER_API_KEY is unset or empty no step, a click on Get
\* Weather included, issues a network call or changes the displayed text:
\* the count of network calls stays zero.
C1_NoFetchWithoutKey ==
    [][KeyUnsetOrEmpty =>
        (net_calls = 0 /\ net_calls' = 0 /\ info_label' = info_label)]_vars

\* Two clicks have run without a key.
C1_Witness ==
    KeyUnsetOrEmpty /\ clicks >= 2 /\ outcome = "config_error"

\* C2: after a fetch attempt that met a network error, a body that is not
\* JSON, or a JSON object without `name`, the display shows the failure
\* sentence.
C2_FailureKindsShowSentence ==
    (FetchAttempted /\
        (\/ reply.kind \in {"network_error", "not_json"}
         \/ (reply.kind = "json" /\ reply.value.type = "object"
                /\ ~HasNameField(reply.value))))
    => info_label = FailureText

\* C3: after a fetch whose parsed response has no `name` field, the
\* display is exactly the failure sentence, whatever the unit selection.
C3_NoNameShowsSentence ==
    (FetchAttempted /\ reply.kind = "json" /\ ~HasNameField(reply.value))
    => info_label = FailureText

\* C4: when a click reaches the formatter, the unit it passes is the one of
\* the radio buttons at the click: C for Celsius, F for Fahrenheit, K for
\* Kelvin and K for no button, and with no button the temperature is shown
\* as received.
C4_UnitFromRadioButtons ==
    [][(clicks' = clicks + 1 /\ outcome' = "shown") =>
        /\ unit' \in {"C", "F", "K"}
        /\ c_button => unit' = "C"
        /\ f_button => unit' = "F"
        /\ k_button => unit' = "K"
        /\ NoButtonChecked =>
            /\ unit' = "K"
            /\ info_label'[4] = "Temperature: "
                    \o Fmt2(reply'.value.fields.main.temp) \o " K"]_vars

\* A result is on screen from a click made with no button checked.
C4_Witness ==
    outcome = "shown" /\ NoButtonChecked /\ unit = "K"

\* C5: each of the four temperature lines shows its own field converted by
\* the rule of the unit, and 273.15 K shows as 0.00 °C, 32.00 °F, 273.15 K.
C5_ConversionRule ==
    outcome = "formatted" =>
        LET d == reply.value.fields
        IN  /\ SubSeq(info_label, 4, 7) = TemperatureLines(d, unit)
            /\ d.main.temp = 273150 =>
                info_label[4] = (CASE unit = "C" -> "Temperature: 0.00 °C"
                                   [] unit = "F" -> "Temperature: 32.00 °F"
                                   [] unit = "K" -> "Temperature: 273.15 K")

\* 273.15 K has been shown in Fahrenheit next to a different feels-like.
C5_Witness ==
    /\ outcome = "formatted"
    /\ unit = "F"
    /\ reply.value.fields.main.temp = 273150
    /\ reply.value.fields.main.feels_like = 255370
    /\ info_label[4] = "Temperature: 32.00 °F"
    /\ info_label[5] = "Feels Like: -0.00 °F"

\* C6: the text for a complete response is the template, in order, with
\* the unit label of the selected unit on the four temperature lines and
\* humidity and wind speed as received.
C6_Template ==
    outcome = "formatted" =>
        /\ info_label = Template(reply.value.fields, unit)
        /\ Len(info_label) = 9
        /\ info_label[1] = "Weather Information:"
        /\ info_label[2] = "Location: London"
        /\ info_label[3] = "Weather: clear sky"
        /\ info_label[8] = "Humidity: 60%"
        /\ info_label[9] = "Wind Speed: 3.5 m/s"

\* 280 K has been shown in Celsius.
C6_Witness ==
    /\ outcome = "formatted"
    /\ unit = "C"
    /\ info_label[4] = "Temperature: 6.85 °C"
    /\ info_label[7] = "Max Temperature: -273.15 °C"

\* C7: with the key set, the number of GETs issued equals the number of
\* clicks on Get Weather.
C7_OneGetPerClick ==
    ~KeyUnsetOrEmpty => net_calls = clicks

\* A success was followed by a click that met a network error.
C7_Witness ==
    /\ ~KeyUnsetOrEmpty
    /\ clicks = 2
    /\ net_calls = 2
    /\ reply = NetworkError
    /\ info_label \notin {EmptyText, FailureText}

\* C8: the endpoint receives the typed location as q and the key as appid.
C8_QueryCarriesLocation ==
    outcome = "requested" =>
        /\ Param(sent, <<"q">>) = [present |-> TRUE, value |-> location_text]
        /\ Param(sent, <<"a", "p", "p", "i", "d">>)
                = [present |-> TRUE, value |-> environ.value]

\* C9: after a fetch attempt the display is the failure sentence or the
\* text rendered from that attempt's response.
C9_DisplayReplaced ==
    FetchAttempted =>
        \/ info_label = FailureText
        \/ /\ reply.kind = "json"
           /\ reply.value \in CompleteBodies
           /\ info_label = Template(reply.value.fields, unit)

\* C10: the display is the initial empty text, the failure sentence, or the
\* complete template of one complete response.
C10_NoPartialText ==
    \/ info_label = EmptyText
    \/ info_label = FailureText
    \/ \E b \in CompleteBodies : \E u \in {"C", "F", "K"} :
            info_label = Template(b.fields, u)

\* A response with a name and a field missing came after a result.
C10_Witness ==
    /\ outcome = "raised"
    /\ reply.kind = "json"
    /\ reply.value \in DefectiveBodies
    /\ HasNameField(reply.value)
    /\ info_label \notin {EmptyText, FailureText}

===========================================================================
